---------------------------- MODULE Spec2Model ----------------------------
(***************************************************************************)
(* A model of the retrieval core of mind-palace-craft: the sentence        *)
(* chunker, the collection-name normalisation and the collection store     *)
(* operations of VectorDBManager (src/alpaca/vector_db.py),                *)
(* RAGService.ask (src/alpaca/rag_service.py) and delete_collection        *)
(* (src/alpaca/cleanup_collections.py).                                    *)
(*                                                                         *)
(* A Python str is modelled as a sequence of one-character strings, so     *)
(* len(), slicing, split() and the regular expressions of the source are   *)
(* computed character by character.                                        *)
(***************************************************************************)
EXTENDS Integers, Sequences, FiniteSets, TLC

(***************************************************************************)
(* Bounds of the model.                                                    *)
(***************************************************************************)
MaxTextLen == 6
MaxChunkSize == 3
MaxOverlap == 2
MaxAffixLen == 2
FillSlack == 3
MaxWrites == 2

(***************************************************************************)
(* Characters.  "\n" stands for every whitespace character other than the  *)
(* blank, "a" for the characters that are neither whitespace nor a         *)
(* sentence terminator.                                                    *)
(***************************************************************************)
TextAlphabet == {"a", ".", " ", "\n"}

\* \s of the regular expressions, and the separators of str.split()/strip()
IsSpace(c) == c \in {" ", "\n", "\t"}

\* the character class [.!?] of the sentence split
IsTerminator(c) == c \in {".", "!", "?"}

SeqsUpTo(S, n) == UNION {[1..k -> S] : k \in 0..n}

Max(a, b) == IF a > b THEN a ELSE b
Min(a, b) == IF a < b THEN a ELSE b

(***************************************************************************)
(* String helpers of the chunker.                                          *)
(***************************************************************************)
RECURSIVE LStrip(_)
LStrip(s) == IF s # <<>> /\ IsSpace(Head(s)) THEN LStrip(Tail(s)) ELSE s

RECURSIVE RStrip(_)
RStrip(s) ==
    IF s # <<>> /\ IsSpace(s[Len(s)]) THEN RStrip(SubSeq(s, 1, Len(s) - 1)) ELSE s

\* str.strip()
Strip(s) == RStrip(LStrip(s))

\* the index of the first whitespace character of s, 0 when it has none
FirstSpace(s) ==
    IF \E i \in 1..Len(s) : IsSpace(s[i])
    THEN CHOOSE i \in 1..Len(s) :
            IsSpace(s[i]) /\ \A j \in 1..(i - 1) : ~IsSpace(s[j])
    ELSE 0

\* re.sub(r'\s+', ' ', text): every maximal run of whitespace becomes one blank
RECURSIVE CollapseSpaces(_)
CollapseSpaces(s) ==
    LET i == FirstSpace(s)
    IN  IF i = 0 THEN s
        ELSE SubSeq(s, 1, i - 1) \o <<" ">>
             \o CollapseSpaces(LStrip(SubSeq(s, i, Len(s))))

\* line 50: text = re.sub(r'\s+', ' ', text).strip()
CleanText(t) == Strip(CollapseSpaces(t))

\* a match of (?<=[.!?])\s+ starts at i: whitespace right after a terminator
IsBreak(s, i) == i > 1 /\ IsSpace(s[i]) /\ IsTerminator(s[i - 1])

\* the index the first match of (?<=[.!?])\s+ starts at, 0 when there is none
FirstBreak(s) ==
    IF \E i \in 1..Len(s) : IsBreak(s, i)
    THEN CHOOSE i \in 1..Len(s) :
            IsBreak(s, i) /\ \A j \in 1..(i - 1) : ~IsBreak(s, j)
    ELSE 0

\* line 53: re.split(r'(?<=[.!?])\s+', text)
RECURSIVE SplitSentences(_)
SplitSentences(s) ==
    LET i == FirstBreak(s)
    IN  IF i = 0 THEN <<s>>
        ELSE <<SubSeq(s, 1, i - 1)>>
             \o SplitSentences(LStrip(SubSeq(s, i, Len(s))))

\* str.split(): the maximal runs of non-whitespace characters
RECURSIVE Words(_)
Words(s) ==
    LET t == LStrip(s)
        i == FirstSpace(t)
    IN  IF t = <<>> THEN <<>>
        ELSE IF i = 0 THEN <<t>>
        ELSE <<SubSeq(t, 1, i - 1)>> \o Words(SubSeq(t, i, Len(t)))

\* ' '.join(words)
RECURSIVE JoinWords(_)
JoinWords(ws) ==
    IF ws = <<>> THEN <<>>
    ELSE IF Len(ws) = 1 THEN ws[1]
    ELSE ws[1] \o <<" ">> \o JoinWords(Tail(ws))

\* Python's seq[start:] for any integer start (a negative start counts from
\* the end, and -0 is 0: the whole sequence)
SliceFrom(s, start) ==
    LET from == IF start < 0 THEN Max(Len(s) + start, 0) ELSE Min(start, Len(s))
    IN  SubSeq(s, from + 1, Len(s))

\* Python's seq[:stop]
SliceTo(s, stop) ==
    LET to == IF stop < 0 THEN Max(Len(s) + stop, 0) ELSE Min(stop, Len(s))
    IN  SubSeq(s, 1, to)

(***************************************************************************)
(* chunk_text, lines 58-71: the pieces of one loop iteration.              *)
(***************************************************************************)
\* line 60 without its "and current_chunk"
CutoverIgnoringEmpty(cur, sentence, size) ==
    Len(cur) + Len(sentence) > size

\* line 60: len(current_chunk) + len(sentence) > chunk_size and current_chunk
Cutover(cur, sentence, size) ==
    Len(cur) + Len(sentence) > size /\ cur # <<>>

\* lines 63-64 with words[:overlap], the leading words, for words[-overlap:]
OverlapTextLeading(cur, ov) ==
    LET words == Words(cur)
    IN  IF Len(words) > ov THEN JoinWords(SliceTo(words, ov)) ELSE cur

\* lines 63-64: the seed of the chunk opened after a cutover
OverlapText(cur, ov) ==
    LET words == Words(cur)
    IN  IF Len(words) > ov THEN JoinWords(SliceFrom(words, 0 - ov)) ELSE cur

\* line 65 without the sentence that triggered the cutover
OpenChunkSeedOnly(cur, sentence, ov) == OverlapText(cur, ov)

\* line 65
OpenChunk(cur, sentence, ov) == OverlapText(cur, ov) \o <<" ">> \o sentence

\* line 67 without its conditional: the blank is put in front of the first
\* sentence too
ExtendChunkAlwaysJoin(cur, sentence) == cur \o <<" ">> \o sentence

\* line 67
ExtendChunk(cur, sentence) ==
    IF cur # <<>> THEN cur \o <<" ">> \o sentence ELSE sentence

\* lines 70-71 without the test of line 70
EmitLastAlways(cur) == TRUE

\* lines 70-71: whether the last running chunk is emitted
EmitLast(cur) == cur # <<>>

(***************************************************************************)
(* sanitize_collection_name, lines 90-112.                                 *)
(***************************************************************************)
MinNameLen == 3
MaxNameLen == 63

\* the raw characters: a letter, the two allowed signs, and "!" for every
\* character outside [a-zA-Z0-9_-]
NameAlphabet == {"a", "_", "-", "!"}

\* str.isalnum() on the characters a sanitized name can hold
IsAlnum(c) == c \in {"a", "c", "o", "l", "0"}

\* the character class [a-zA-Z0-9_-] of line 91
IsNameChar(c) == IsAlnum(c) \/ c \in {"_", "-"}

\* line 91: re.sub(r'[^a-zA-Z0-9_-]', '_', name)
ReplaceInvalid(name) ==
    [i \in 1..Len(name) |-> IF IsNameChar(name[i]) THEN name[i] ELSE "_"]

\* lines 94-95
EnsureStart(s) == IF s # <<>> /\ ~IsAlnum(s[1]) THEN <<"c">> \o s ELSE s

\* lines 98-99
EnsureEnd(s) == IF s # <<>> /\ ~IsAlnum(s[Len(s)]) THEN s \o <<"0">> ELSE s

\* lines 102-103
EnsureMinLength(s) ==
    IF Len(s) < MinNameLen THEN s \o <<"_", "c", "o", "l">> ELSE s

\* lines 106-107 without the repair of lines 109-110
EnsureMaxLengthCutOnly(s) ==
    IF Len(s) > MaxNameLen THEN SliceTo(s, MaxNameLen) ELSE s

\* lines 106-110
EnsureMaxLength(s) ==
    IF Len(s) > MaxNameLen
    THEN LET cut == SliceTo(s, MaxNameLen)
         IN  IF ~IsAlnum(cut[Len(cut)]) THEN SliceTo(cut, 0 - 1) \o <<"0">> ELSE cut
    ELSE s

sanitize_collection_name(name) ==
    EnsureMaxLength(EnsureMinLength(EnsureEnd(EnsureStart(ReplaceInvalid(name)))))

\* ChromaDB's requirements on a collection name, as lines 79-82 state them
StoreAcceptsName(s) ==
    /\ Len(s) >= MinNameLen
    /\ Len(s) <= MaxNameLen
    /\ IsAlnum(s[1])
    /\ IsAlnum(s[Len(s)])
    /\ \A i \in 1..Len(s) : IsNameChar(s[i])

Fill(c, k) == [i \in 1..k |-> c]

\* raw names: short ones, and ones around the maximal length
FillLens == {0} \cup ((MaxNameLen - FillSlack)..(MaxNameLen + 1))

RawNames ==
    {p \o Fill(f, k) \o q :
        p \in SeqsUpTo(NameAlphabet, MaxAffixLen),
        q \in SeqsUpTo(NameAlphabet, MaxAffixLen),
        f \in NameAlphabet, k \in FillLens}

(***************************************************************************)
(* chunk_text as a function: lines 49-73 with the loop folded over the     *)
(* sentences.                                                              *)
(***************************************************************************)
RECURSIVE ChunkFold(_, _, _, _, _)
ChunkFold(ss, cur, out, size, ov) ==
    IF ss = <<>>
    THEN (IF EmitLast(cur) THEN Append(out, Strip(cur)) ELSE out)
    ELSE IF Cutover(cur, Head(ss), size)
         THEN ChunkFold(Tail(ss), OpenChunk(cur, Head(ss), ov),
                        Append(out, Strip(cur)), size, ov)
    ELSE ChunkFold(Tail(ss), ExtendChunk(cur, Head(ss)), out, size, ov)

chunk_text(t, size, ov) ==
    ChunkFold(SplitSentences(CleanText(t)), <<>>, <<>>, size, ov)

\* line 37: the defaults add_pdf_to_vector_db chunks with (line 173)
DefaultChunkSize == 500
DefaultOverlap == 50

(***************************************************************************)
(* The collection store (the ChromaDB client of line 30): a function from  *)
(* the names of the existing collections to their chunk records, in        *)
(* insertion order.                                                        *)
(***************************************************************************)
EmptyStore == [n \in {} |-> <<>>]

\* client.delete_collection(name) on an existing collection
StoreWithout(st, name) == [n \in (DOMAIN st) \ {name} |-> st[n]]

\* client.get_or_create_collection(name) for a name the store accepts
StoreGetOrCreate(st, name) ==
    IF name \in DOMAIN st THEN st ELSE (name :> <<>>) @@ st

\* lines 132-137 left out: nothing is deleted
AfterOverwriteKeeps(st, name, overwrite) == st

\* lines 132-137: the best-effort delete of create_collection
AfterOverwrite(st, name, overwrite) ==
    IF overwrite /\ name \in DOMAIN st THEN StoreWithout(st, name) ELSE st

\* lines 139-142 raise when the store refuses the name
CreateRaises(raw) == ~StoreAcceptsName(sanitize_collection_name(raw))

\* line 169 passing overwrite=True
OverwriteOnAdd == TRUE

\* line 114: the overwrite that line 169 creates the collection with
DefaultOverwrite == FALSE

\* line 125 left out: the collection is named as the caller named it
CollectionOfRaw(raw) == raw

\* line 125: the collection create_collection addresses for a raw name
CollectionOf(raw) == sanitize_collection_name(raw)

\* lines 125-145: the store create_collection(raw, overwrite) leaves
CreateStore(st, raw, overwrite) ==
    LET name == CollectionOf(raw)
    IN  IF CreateRaises(raw) THEN AfterOverwrite(st, name, overwrite)
        ELSE StoreGetOrCreate(AfterOverwrite(st, name, overwrite), name)

\* line 192 without the position: f"{pdf_filename}_chunk_"
ChunkIdWithoutIndex(filename, i) == <<filename, "_chunk_">>

\* line 192: f"{pdf_filename}_chunk_{i}", i the zero-based position
ChunkId(filename, i) == <<filename, "_chunk_", i>>

\* lines 183-188 with **(metadata or {}) ahead of the system's keys: the
\* system's values are written last
ChunkMetaSystemWins(filename, i, chunk, metadata) ==
    LET sys == [source |-> filename, chunk_index |-> i, chunk_size |-> Len(chunk)]
    IN  [k \in (DOMAIN sys) \cup (DOMAIN metadata) |->
            IF k \in DOMAIN sys THEN sys[k] ELSE metadata[k]]

\* lines 183-188: {"source": .., "chunk_index": .., "chunk_size": ..,
\* **(metadata or {})}: the caller's keys are written last
ChunkMeta(filename, i, chunk, metadata) ==
    LET sys == [source |-> filename, chunk_index |-> i, chunk_size |-> Len(chunk)]
    IN  [k \in (DOMAIN sys) \cup (DOMAIN metadata) |->
            IF k \in DOMAIN metadata THEN metadata[k] ELSE sys[k]]

\* lines 180-192: the records of one call, in chunk order
ChunkRecords(cs, filename, metadata) ==
    [i \in 1..Len(cs) |->
        [id |-> ChunkId(filename, i - 1),
         document |-> cs[i],
         metadata |-> ChunkMeta(filename, i - 1, cs[i], metadata)]]

\* lines 196-201 with an add that replaces a record whose id the collection
\* already holds by the new one
CollectionAddReplaces(coll, recs) ==
    LET held(r) == \E j \in 1..Len(coll) : coll[j].id = r.id
        new(j) == {i \in 1..Len(recs) : recs[i].id = coll[j].id}
    IN  [j \in 1..Len(coll) |->
            IF new(j) = {} THEN coll[j] ELSE recs[CHOOSE i \in new(j) : TRUE]]
        \o SelectSeq(recs, LAMBDA r : ~held(r))

\* lines 196-201 with an add that appends whatever it is given
CollectionAddAppends(coll, recs) == coll \o recs

\* lines 196-201: collection.add keeps a record whose id the collection
\* already holds and appends the others
RECURSIVE CollectionAdd(_, _)
CollectionAdd(coll, recs) ==
    IF recs = <<>> THEN coll
    ELSE IF \E j \in 1..Len(coll) : coll[j].id = Head(recs).id
         THEN CollectionAdd(coll, Tail(recs))
    ELSE CollectionAdd(Append(coll, Head(recs)), Tail(recs))

\* lines 196-201 raise on an empty batch: the store refuses an add without ids
AddRaises(cs) == cs = <<>>

\* the embedding model of line 34 and the cosine distance of line 141, as a
\* distance between a query and a document: 0 exactly for equal texts
Distance(q, d) ==
    IF q = d THEN 0
    ELSE 1 + (IF Len(q) > Len(d) THEN Len(q) - Len(d) ELSE Len(d) - Len(q))

\* lines 241-244 without the ranking: the records of coll, the latest first
RankedLatestFirst(coll, q) == [i \in 1..Len(coll) |-> coll[Len(coll) + 1 - i]]

\* lines 241-244: the records of coll by ascending distance to q, ties in
\* insertion order
RECURSIVE Ranked(_, _)
Ranked(coll, q) ==
    IF coll = <<>> THEN <<>>
    ELSE LET best == CHOOSE i \in 1..Len(coll) :
                        \A j \in 1..Len(coll) :
                            \/ Distance(q, coll[i].document) < Distance(q, coll[j].document)
                            \/ /\ Distance(q, coll[i].document) = Distance(q, coll[j].document)
                               /\ i <= j
         IN  <<coll[best]>> \o
             Ranked([k \in 1..(Len(coll) - 1) |->
                        IF k < best THEN coll[k] ELSE coll[k + 1]], q)

\* what a call returns: one record shape for every operation
NoResult ==
    [name |-> <<>>, count |-> 0, exists |-> FALSE, error |-> FALSE,
     documents |-> <<>>, distances |-> <<>>, metadatas |-> <<>>,
     answer |-> <<>>, has_sources |-> FALSE, sources |-> <<>>]

\* lines 241-244 raise when the store refuses n_results: collection.query
\* takes a positive number of results only
QueryRaises(st, name, n) == name \in DOMAIN st /\ n <= 0

\* lines 241-244 returning one hit less than n_results
TopHitsButOne(ranked, n) == SliceTo(ranked, n - 1)

\* lines 241-244: the n_results nearest records, all of them if there are fewer
TopHits(ranked, n) == SliceTo(ranked, n)

\* lines 227-250
QueryResult(st, name, q, n) ==
    IF name \notin DOMAIN st
    THEN [NoResult EXCEPT !.name = name, !.error = TRUE]
    ELSE LET hits == TopHits(Ranked(st[name], q), n)
         IN  [NoResult EXCEPT
                !.name = name,
                !.exists = TRUE,
                !.count = Len(hits),
                !.documents = [i \in 1..Len(hits) |-> hits[i].document],
                !.distances = [i \in 1..Len(hits) |-> Distance(q, hits[i].document)],
                !.metadatas = [i \in 1..Len(hits) |-> hits[i].metadata]]

\* line 238 ahead of the lookup of line 228: every query encodes its text
QueryInvokesAlways(st, name) == {"encode"}

\* lines 237-238: a query encodes its text once the collection is found
QueryInvokes(st, name) == IF name \in DOMAIN st THEN {"encode"} ELSE {}

\* the collections get_collection_stats can read: none when the store
\* raises an error of its own
StoreSeen(st, store_error) == IF store_error THEN EmptyStore ELSE st

\* lines 254-261 without the except clause of lines 262-267
StatsOutcomeUncaught(st, name, store_error) ==
    IF name \in DOMAIN st /\ ~store_error THEN "ok" ELSE "raised"

\* lines 254-267: every exception is caught and answered with a result
StatsOutcome(st, name, store_error) == "ok"

\* lines 252-267
StatsResult(st, name) ==
    IF name \in DOMAIN st
    THEN [NoResult EXCEPT !.name = name, !.count = Len(st[name]), !.exists = TRUE]
    ELSE [NoResult EXCEPT !.name = name, !.count = 0, !.exists = FALSE]

(***************************************************************************)
(* RAGService (src/alpaca/rag_service.py).  An answer is a sequence of     *)
(* string pieces.  A generation is what the Groq call of lines 123-134     *)
(* does: it returns a content, or raises an exception with a message.      *)
(***************************************************************************)
\* rag_service.py line 173
FallbackAnswer ==
    <<"I couldn't find any relevant information in the knowledge base. Please make sure PDFs have been uploaded and processed.">>

\* rag_service.py line 94
NoContextAnswer ==
    <<"I couldn't find relevant information to answer your question.">>

\* rag_service.py line 138
ErrorPrefix == "Error generating answer: "

\* rag_service.py lines 188 and 190
MaxSources == 3
PreviewLen == 200

\* rag_service.py lines 61-74: the chunks and metadatas of a query result
RetrievedChunks(results) == IF results.error THEN <<>> ELSE results.documents
RetrievedMetadatas(results) == IF results.error THEN <<>> ELSE results.metadatas

\* rag_service.py lines 93-138 with line 138 returning str(e) alone
GenerateAnswerBareMessage(context_chunks, generation) ==
    IF context_chunks = <<>> THEN NoContextAnswer ELSE <<generation.content>>

\* rag_service.py lines 93-138
GenerateAnswer(context_chunks, generation) ==
    IF context_chunks = <<>> THEN NoContextAnswer
    ELSE IF generation.raises THEN <<ErrorPrefix, generation.content>>
    ELSE <<generation.content>>

\* rag_service.py line 190
TextPreview(chunk) ==
    IF Len(chunk) > PreviewLen
    THEN SliceTo(chunk, PreviewLen) \o <<".", ".", ".">>
    ELSE chunk

\* dict.get(key, default)
MetaGet(meta, key, default) == IF key \in DOMAIN meta THEN meta[key] ELSE default

\* rag_service.py lines 187-194 without the [:3] of line 188
SourcesUncut(context_chunks, metadatas) ==
    [i \in 1..Min(Len(context_chunks), Len(metadatas)) |->
        [text_preview |-> TextPreview(context_chunks[i]),
         source_file |-> MetaGet(metadatas[i], "source", <<"Unknown">>),
         chunk_index |-> MetaGet(metadatas[i], "chunk_index", 0)]]

\* rag_service.py lines 187-194
Sources(context_chunks, metadatas) ==
    [i \in 1..Min(MaxSources, Min(Len(context_chunks), Len(metadatas))) |->
        [text_preview |-> TextPreview(context_chunks[i]),
         source_file |-> MetaGet(metadatas[i], "source", <<"Unknown">>),
         chunk_index |-> MetaGet(metadatas[i], "chunk_index", 0)]]

\* rag_service.py line 171 with the test left out
NoContextNever(context_chunks) == FALSE

\* rag_service.py line 171: `if not context_chunks`
NoContext(context_chunks) == context_chunks = <<>>

\* rag_service.py lines 163-197: what ask returns when the query returned
AskResult(results, include_sources, generation) ==
    LET context_chunks == RetrievedChunks(results)
        metadatas == RetrievedMetadatas(results)
    IN  IF NoContext(context_chunks)
        THEN [NoResult EXCEPT !.answer = FallbackAnswer, !.has_sources = TRUE]
        ELSE [NoResult EXCEPT
                !.answer = GenerateAnswer(context_chunks, generation),
                !.has_sources = include_sources,
                !.sources = IF include_sources
                            THEN Sources(context_chunks, metadatas)
                            ELSE <<>>]

\* the external capabilities a call of ask invokes: the embedding model
\* (vector_db.py line 238) and the generation (rag_service.py line 123)
AskInvokes(results) ==
    (IF results.error THEN {} ELSE {"encode"})
    \cup (IF NoContext(RetrievedChunks(results)) THEN {} ELSE {"generate"})

\* rag_service.py lines 32 and 123-132: the client is built and called
\* without a timeout of its own, so the Groq library's default request
\* timeout applies; when it expires the call of line 123 raises its timeout
\* error, an Exception with this message
TimeoutGeneration == [raises |-> TRUE, content |-> "Request timed out."]

\* rag_service.py line 123 waiting without a limit
TimeoutNever(silent) == FALSE

\* rag_service.py lines 32 and 123: the request timeout expires when the
\* service stays silent
TimeoutFires(silent) == silent

\* rag_service.py lines 137-138 calling the service again after an exception
AfterGenerationRetry(generation) ==
    IF generation.raises THEN "retrieved" ELSE "answered"

\* rag_service.py lines 134-138: where ask stands once the call of line 123
\* has ended, by a return or by an exception: generate_answer returns
AfterGeneration(generation) == "answered"

(***************************************************************************)
(* The inputs of the store operations.                                     *)
(***************************************************************************)
\* "", "a!a", "a_a" and "aaa"
StoreRawNames ==
    {<<>>, <<"a", "!", "a">>, <<"a", "_", "a">>, <<"a", "a", "a">>}

\* the names ask is called with: "a!a" and "a_a", one collection that only
\* the second finds
RagRawNames == {<<"a", "!", "a">>, <<"a", "_", "a">>}

\* the names of SpecLife: "a!a" and "a_a", which share a collection, and "aaa"
LifeRawNames == RagRawNames \cup {<<"a", "a", "a">>}

\* a sentence of n characters
Sentence(n) == Fill("a", n - 1) \o <<".">>

\* a sentence that fills more than half of a default chunk
LongSentence == Sentence(DefaultChunkSize \div 2 + 1)

\* no text, one short sentence, and two sentences that do not fit one chunk
StoreTexts == {<<>>, Sentence(2), LongSentence \o <<" ">> \o LongSentence}

\* the chunks of each text under the defaults of line 37
StoreChunks ==
    [t \in StoreTexts |-> chunk_text(t, DefaultChunkSize, DefaultOverlap)]

Filenames == {<<"f">>, <<"g">>}

\* metadata=None, and a dict with a key of its own and one of the system's
NoMetadata == [k \in {} |-> 0]
Metadatas == {NoMetadata, [source |-> <<"x">>, floor_id |-> 1]}

Queries == {Sentence(2), <<"a">>}
ResultCounts == {0, 1, 2}

\* rag_service.py line 144: the n_results of ask, its default 5 among them
DefaultAskResults == 5
AskResultCounts == ResultCounts \cup {DefaultAskResults}

\* a generation that returns, and one that raises
NoGeneration == [raises |-> FALSE, content |-> ""]
Generations ==
    {[raises |-> FALSE, content |-> "answer"],
     [raises |-> TRUE, content |-> "timeout"]}

\* the arguments of a call other than the collection name, and what the
\* environment does during the call
NoArgs ==
    [overwrite |-> FALSE, pdf_text |-> <<>>, pdf_filename |-> <<>>,
     metadata |-> NoMetadata, query |-> <<>>, n_results |-> 0,
     include_sources |-> FALSE, store_error |-> FALSE,
     generation |-> NoGeneration]

(***************************************************************************)
(* Concurrent reads.  A read is query_vector_db or get_collection_stats;   *)
(* it looks the collection up (lines 228, 255) and then reads it (lines    *)
(* 238-244, 256).  Other reads may run between the two.                    *)
(***************************************************************************)
\* the threads that read at the same time
NumReaders == 2
Readers == 1..NumReaders

\* the reads a thread may make
Reads ==
    [kind : {"get_collection_stats"}, name : RagRawNames,
     query : {<<>>}, n_results : {0}]
    \cup [kind : {"query_vector_db"}, name : RagRawNames,
          query : {Sentence(2)}, n_results : {1, 2}]

NoRead == [kind |-> "none", name |-> <<>>, query |-> <<>>, n_results |-> 0]

\* a thread that is not reading
IdleReader == [pc |-> "idle", read |-> NoRead, outcome |-> "none", result |-> NoResult]

\* lines 228 and 255 as client.get_or_create_collection
LookupCreates(st, name) == StoreGetOrCreate(st, name)

\* lines 228 and 255: client.get_collection leaves the store as it is
LookupStore(st, name) == st

\* what a read returns from the store st: lines 227-250 and 252-267
ReadResult(st, read) ==
    IF read.kind = "get_collection_stats" THEN StatsResult(st, read.name)
    ELSE IF QueryRaises(st, read.name, read.n_results) THEN NoResult
    ELSE QueryResult(st, read.name, read.query, read.n_results)

ReadOutcome(st, read) ==
    IF read.kind = "query_vector_db" /\ QueryRaises(st, read.name, read.n_results)
    THEN "raised" ELSE "ok"

VARIABLES
    pc,             \* position of the chunk_text call
    text,           \* argument text
    chunk_size,     \* argument chunk_size
    overlap,        \* argument overlap
    sentences,      \* local sentences
    idx,            \* number of sentences the for loop has consumed
    current_chunk,  \* local current_chunk
    chunks,         \* local chunks, the returned list once pc = "done"
    name_pc,        \* position of the name normalisation
    raw_name,       \* argument name of sanitize_collection_name
    sanitized,      \* its return value
    resanitized,    \* the return value for the returned name
    collections,    \* the store: collection name -> chunk records
    writes,         \* number of create/add calls made
    op,             \* the last VectorDBManager method called
    arg_name,       \* its collection_name argument
    outcome,        \* "ok" when it returned, "raised" when it raised
    ret,            \* what it returned
    args,           \* its other arguments, and what the environment did
    before,         \* the store as the call found it
    invoked,        \* the external capabilities the call invoked
    ask_pc,         \* position of the ask call
    retrieved,      \* the query result retrieve_context received
    pending,        \* what the generation service does with the request
    response,       \* how the generation call ended
    calls,          \* the calls ask made so far, in order
    readers         \* the reading threads: position, read and result of each

chunkVars == <<pc, text, chunk_size, overlap, sentences, idx, current_chunk, chunks>>
nameVars == <<name_pc, raw_name, sanitized, resanitized>>
callVars == <<op, arg_name, outcome, ret, args, before, invoked>>
storeVars == <<collections, writes, callVars>>
askVars == <<ask_pc, retrieved, pending, response, calls>>
readVars == <<readers>>
vars == <<chunkVars, nameVars, storeVars, askVars, readVars>>

ChunkIdle ==
    /\ pc = "idle"
    /\ text = <<>>
    /\ chunk_size = 0
    /\ overlap = 0
    /\ sentences = <<>>
    /\ idx = 0
    /\ current_chunk = <<>>
    /\ chunks = <<>>

NameIdle ==
    /\ name_pc = "idle"
    /\ raw_name = <<>>
    /\ sanitized = <<>>
    /\ resanitized = <<>>

StoreIdle ==
    /\ collections = EmptyStore
    /\ writes = 0
    /\ op = "none"
    /\ arg_name = <<>>
    /\ outcome = "none"
    /\ ret = NoResult
    /\ args = NoArgs
    /\ before = EmptyStore
    /\ invoked = {}

AskIdle ==
    /\ ask_pc = "idle"
    /\ retrieved = NoResult
    /\ pending = "none"
    /\ response = NoGeneration
    /\ calls = <<>>

ReadIdle == readers = [r \in Readers |-> IdleReader]

(***************************************************************************)
(* SpecChunk: one call chunk_text(text, chunk_size, overlap), one loop     *)
(* iteration per step.                                                     *)
(***************************************************************************)
InitChunk ==
    /\ pc = "call"
    /\ text \in SeqsUpTo(TextAlphabet, MaxTextLen)
    /\ chunk_size \in 0..MaxChunkSize
    /\ overlap \in 0..MaxOverlap
    /\ sentences = <<>>
    /\ idx = 0
    /\ current_chunk = <<>>
    /\ chunks = <<>>
    /\ NameIdle
    /\ StoreIdle
    /\ AskIdle
    /\ ReadIdle

\* lines 49-56
ChunkBegin ==
    /\ pc = "call"
    /\ sentences' = SplitSentences(CleanText(text))
    /\ idx' = 0
    /\ current_chunk' = <<>>
    /\ chunks' = <<>>
    /\ pc' = "loop"
    /\ UNCHANGED <<text, chunk_size, overlap, nameVars, storeVars, askVars, readVars>>

\* lines 58-67, the branch of line 60
ChunkCutover ==
    /\ pc = "loop"
    /\ idx < Len(sentences)
    /\ Cutover(current_chunk, sentences[idx + 1], chunk_size)
    /\ chunks' = Append(chunks, Strip(current_chunk))
    /\ current_chunk' = OpenChunk(current_chunk, sentences[idx + 1], overlap)
    /\ idx' = idx + 1
    /\ UNCHANGED <<pc, text, chunk_size, overlap, sentences, nameVars, storeVars, askVars, readVars>>

\* lines 58-67, the branch of line 66
ChunkExtend ==
    /\ pc = "loop"
    /\ idx < Len(sentences)
    /\ ~Cutover(current_chunk, sentences[idx + 1], chunk_size)
    /\ current_chunk' = ExtendChunk(current_chunk, sentences[idx + 1])
    /\ idx' = idx + 1
    /\ UNCHANGED <<pc, text, chunk_size, overlap, sentences, chunks, nameVars, storeVars, askVars, readVars>>

\* lines 69-73
ChunkEnd ==
    /\ pc = "loop"
    /\ idx = Len(sentences)
    /\ chunks' = IF EmitLast(current_chunk)
                 THEN Append(chunks, Strip(current_chunk))
                 ELSE chunks
    /\ pc' = "done"
    /\ UNCHANGED <<text, chunk_size, overlap, sentences, idx, current_chunk, nameVars, storeVars, askVars, readVars>>

NextChunk == ChunkBegin \/ ChunkCutover \/ ChunkExtend \/ ChunkEnd

SpecChunk == InitChunk /\ [][NextChunk]_vars

(***************************************************************************)
(* SpecName: sanitize_collection_name(raw_name), and then the same         *)
(* function on the name it returned.                                       *)
(***************************************************************************)
InitName ==
    /\ name_pc = "raw"
    /\ raw_name \in RawNames
    /\ sanitized = <<>>
    /\ resanitized = <<>>
    /\ ChunkIdle
    /\ StoreIdle
    /\ AskIdle
    /\ ReadIdle

NameSanitize ==
    /\ name_pc = "raw"
    /\ sanitized' = sanitize_collection_name(raw_name)
    /\ name_pc' = "sanitized"
    /\ UNCHANGED <<raw_name, resanitized, chunkVars, storeVars, askVars, readVars>>

NameResanitize ==
    /\ name_pc = "sanitized"
    /\ resanitized' = sanitize_collection_name(sanitized)
    /\ name_pc' = "resanitized"
    /\ UNCHANGED <<raw_name, sanitized, chunkVars, storeVars, askVars, readVars>>

NextName == NameSanitize \/ NameResanitize

SpecName == InitName /\ [][NextName]_vars

(***************************************************************************)
(* Spec: the VectorDBManager methods called one after another on one       *)
(* store, each call running to completion.                                 *)
(***************************************************************************)
Init ==
    /\ StoreIdle
    /\ ChunkIdle
    /\ NameIdle
    /\ AskIdle
    /\ ReadIdle

\* lines 114-145
create_collection(raw, overwrite) ==
    /\ writes < MaxWrites
    /\ writes' = writes + 1
    /\ collections' = CreateStore(collections, raw, overwrite)
    /\ op' = "create_collection"
    /\ arg_name' = raw
    /\ outcome' = IF CreateRaises(raw) THEN "raised" ELSE "ok"
    /\ ret' = IF CreateRaises(raw) THEN NoResult
              ELSE LET name == CollectionOf(raw)
                   IN  [NoResult EXCEPT
                          !.name = name,
                          !.exists = TRUE,
                          !.count = Len(collections'[name])]
    /\ args' = [NoArgs EXCEPT !.overwrite = overwrite]
    /\ before' = collections
    /\ invoked' = {}
    /\ UNCHANGED <<chunkVars, nameVars, askVars, readVars>>

\* lines 147-208
add_pdf_to_vector_db(raw, pdf_text, pdf_filename, metadata) ==
    LET name == CollectionOf(raw)
        created == CreateStore(collections, raw, DefaultOverwrite)
        cs == StoreChunks[pdf_text]
        recs == ChunkRecords(cs, pdf_filename, metadata)
        raises == CreateRaises(raw) \/ AddRaises(cs)
    IN  /\ writes < MaxWrites
        /\ writes' = writes + 1
        /\ collections' =
              IF raises THEN created
              ELSE [created EXCEPT ![name] = CollectionAdd(created[name], recs)]
        /\ op' = "add_pdf_to_vector_db"
        /\ arg_name' = raw
        /\ outcome' = IF raises THEN "raised" ELSE "ok"
        /\ ret' = IF raises THEN NoResult
                  ELSE [NoResult EXCEPT !.name = name, !.exists = TRUE, !.count = Len(cs)]
        /\ args' = [NoArgs EXCEPT !.pdf_text = pdf_text,
                                  !.pdf_filename = pdf_filename,
                                  !.metadata = metadata]
        /\ before' = collections
        /\ invoked' = IF CreateRaises(raw) THEN {} ELSE {"encode"}
        /\ UNCHANGED <<chunkVars, nameVars, askVars, readVars>>

\* lines 210-250
query_vector_db(raw, query, n_results) ==
    /\ op' = "query_vector_db"
    /\ arg_name' = raw
    /\ outcome' = IF QueryRaises(collections, raw, n_results) THEN "raised" ELSE "ok"
    /\ ret' = IF QueryRaises(collections, raw, n_results) THEN NoResult
              ELSE QueryResult(collections, raw, query, n_results)
    /\ args' = [NoArgs EXCEPT !.query = query, !.n_results = n_results]
    /\ before' = collections
    /\ invoked' = QueryInvokes(collections, raw)
    /\ UNCHANGED <<collections, writes, chunkVars, nameVars, askVars, readVars>>

\* lines 252-267; store_error: the lookup or the count raises although the
\* collection exists
get_collection_stats(raw, store_error) ==
    /\ op' = "get_collection_stats"
    /\ arg_name' = raw
    /\ outcome' = StatsOutcome(collections, raw, store_error)
    /\ ret' = StatsResult(StoreSeen(collections, store_error), raw)
    /\ args' = [NoArgs EXCEPT !.store_error = store_error]
    /\ before' = collections
    /\ invoked' = {}
    /\ UNCHANGED <<collections, writes, chunkVars, nameVars, askVars, readVars>>

\* rag_service.py lines 140-197, with retrieve_context (lines 35-74) and
\* generate_answer (lines 76-138)
ask(raw, question, n_results, include_sources, generation) ==
    LET raises == QueryRaises(collections, raw, n_results)
        results == QueryResult(collections, raw, question, n_results)
    IN  /\ op' = "ask"
        /\ arg_name' = raw
        /\ outcome' = IF raises THEN "raised" ELSE "ok"
        /\ ret' = IF raises THEN NoResult
                  ELSE AskResult(results, include_sources, generation)
        /\ args' = [NoArgs EXCEPT !.query = question,
                                  !.n_results = n_results,
                                  !.include_sources = include_sources,
                                  !.generation = generation]
        /\ before' = collections
        /\ invoked' = IF raises THEN {"encode"} ELSE AskInvokes(results)
        /\ UNCHANGED <<collections, writes, chunkVars, nameVars, askVars, readVars>>

Next ==
    \E raw \in StoreRawNames :
        \/ \E overwrite \in BOOLEAN : create_collection(raw, overwrite)
        \/ \E t \in StoreTexts, f \in Filenames, m \in Metadatas :
               add_pdf_to_vector_db(raw, t, f, m)
        \/ \E q \in Queries, n \in ResultCounts : query_vector_db(raw, q, n)
        \/ \E store_error \in BOOLEAN : get_collection_stats(raw, store_error)

Spec == Init /\ [][Next]_vars

(***************************************************************************)
(* SpecRag: RAGService.ask over a store that add_pdf_to_vector_db fills.   *)
(***************************************************************************)
NextRag ==
    \E raw \in RagRawNames :
        \/ \E t \in StoreTexts, f \in Filenames, m \in Metadatas :
               add_pdf_to_vector_db(raw, t, f, m)
        \/ \E q \in Queries, n \in AskResultCounts, include_sources \in BOOLEAN,
              generation \in Generations :
               ask(raw, q, n, include_sources, generation)

SpecRag == Init /\ [][NextRag]_vars

(***************************************************************************)
(* SpecLife: every operation that reads or writes the store, called one    *)
(* after another: the VectorDBManager methods, RAGService.ask and the      *)
(* delete_collection of cleanup_collections.py.                            *)
(***************************************************************************)
\* cleanup_collections.py lines 43-54: the name goes to the store as it is;
\* the store raises for a collection it does not hold, and the function
\* returns False
delete_collection(raw) ==
    /\ collections' = IF raw \in DOMAIN collections
                      THEN StoreWithout(collections, raw)
                      ELSE collections
    /\ op' = "delete_collection"
    /\ arg_name' = raw
    /\ outcome' = "ok"
    /\ ret' = [NoResult EXCEPT !.name = raw, !.error = raw \notin DOMAIN collections]
    /\ args' = NoArgs
    /\ before' = collections
    /\ invoked' = {}
    /\ UNCHANGED <<writes, chunkVars, nameVars, askVars, readVars>>

NextLife ==
    \E raw \in LifeRawNames :
        \/ \E overwrite \in BOOLEAN : create_collection(raw, overwrite)
        \/ \E t \in StoreTexts, f \in Filenames, m \in Metadatas :
               add_pdf_to_vector_db(raw, t, f, m)
        \/ query_vector_db(raw, Sentence(2), 1)
        \/ get_collection_stats(raw, FALSE)
        \/ \E generation \in Generations :
               ask(raw, Sentence(2), DefaultAskResults, TRUE, generation)
        \/ delete_collection(raw)

SpecLife == Init /\ [][NextLife]_vars

(***************************************************************************)
(* SpecAsk: one RAGService.ask at a time, step by step, over a store that  *)
(* add_pdf_to_vector_db fills between the calls.  The generation service   *)
(* answers the request (with a content or with an error) or stays silent.  *)
(***************************************************************************)
\* rag_service.py lines 140-161
AskCall(raw, question, n_results, include_sources) ==
    /\ ask_pc = "idle"
    /\ ask_pc' = "retrieve"
    /\ op' = "ask"
    /\ arg_name' = raw
    /\ outcome' = "running"
    /\ ret' = NoResult
    /\ args' = [NoArgs EXCEPT !.query = question,
                              !.n_results = n_results,
                              !.include_sources = include_sources]
    /\ before' = collections
    /\ invoked' = {}
    /\ retrieved' = NoResult
    /\ pending' = "none"
    /\ response' = NoGeneration
    /\ calls' = <<>>
    /\ UNCHANGED <<collections, writes, chunkVars, nameVars, readVars>>

\* rag_service.py lines 165-169 with retrieve_context (lines 55-74): the
\* one call of query_vector_db
AskRetrieve ==
    LET raises == QueryRaises(collections, arg_name, args.n_results)
    IN  /\ ask_pc = "retrieve"
        /\ calls' = Append(calls, "query")
        /\ invoked' = invoked \cup QueryInvokes(collections, arg_name)
        /\ retrieved' = IF raises THEN NoResult
                        ELSE QueryResult(collections, arg_name, args.query, args.n_results)
        /\ ask_pc' = IF raises THEN "idle" ELSE "retrieved"
        /\ outcome' = IF raises THEN "raised" ELSE outcome
        /\ UNCHANGED <<collections, writes, op, arg_name, ret, args, before,
                       pending, response, chunkVars, nameVars, readVars>>

\* rag_service.py lines 171-175
AskFallback ==
    /\ ask_pc = "retrieved"
    /\ NoContext(RetrievedChunks(retrieved))
    /\ ret' = AskResult(retrieved, args.include_sources, response)
    /\ outcome' = "ok"
    /\ ask_pc' = "idle"
    /\ UNCHANGED <<collections, writes, op, arg_name, args, before, invoked,
                   retrieved, pending, response, calls, chunkVars, nameVars, readVars>>

\* rag_service.py line 181 with generate_answer up to the request of lines
\* 123-132
AskGenerate ==
    /\ ask_pc = "retrieved"
    /\ ~NoContext(RetrievedChunks(retrieved))
    /\ calls' = Append(calls, "generate")
    /\ invoked' = invoked \cup {"generate"}
    /\ pending' \in {"responds", "silent"}
    /\ ask_pc' = "waiting"
    /\ UNCHANGED <<collections, writes, op, arg_name, outcome, ret, args, before,
                   retrieved, response, chunkVars, nameVars, readVars>>

\* rag_service.py lines 123-138: the service answers, with a content (lines
\* 134-135) or with an error (lines 137-138)
GenerationResponds(generation) ==
    /\ ask_pc = "waiting"
    /\ pending = "responds"
    /\ response' = generation
    /\ ask_pc' = AfterGeneration(generation)
    /\ UNCHANGED <<collections, writes, callVars, retrieved, pending, calls,
                   chunkVars, nameVars, readVars>>

\* rag_service.py lines 123-138: the request timeout ends the wait for a
\* silent service with an exception (lines 137-138)
GenerationTimesOut ==
    /\ ask_pc = "waiting"
    /\ TimeoutFires(pending = "silent")
    /\ response' = TimeoutGeneration
    /\ ask_pc' = AfterGeneration(TimeoutGeneration)
    /\ UNCHANGED <<collections, writes, callVars, retrieved, pending, calls,
                   chunkVars, nameVars, readVars>>

\* rag_service.py lines 183-197
AskReturn ==
    /\ ask_pc = "answered"
    /\ ret' = AskResult(retrieved, args.include_sources, response)
    /\ args' = [args EXCEPT !.generation = response]
    /\ outcome' = "ok"
    /\ ask_pc' = "idle"
    /\ UNCHANGED <<collections, writes, op, arg_name, before, invoked,
                   retrieved, pending, response, calls, chunkVars, nameVars, readVars>>

\* the steps of a call of ask that has begun
AskStep ==
    \/ AskRetrieve
    \/ AskFallback
    \/ AskGenerate
    \/ \E generation \in Generations : GenerationResponds(generation)
    \/ GenerationTimesOut
    \/ AskReturn

NextAsk ==
    \/ \E raw \in RagRawNames :
          \/ \E t \in StoreTexts, m \in Metadatas :
                 ask_pc = "idle" /\ add_pdf_to_vector_db(raw, t, <<"f">>, m)
          \/ \E q \in Queries, n \in ResultCounts, include_sources \in BOOLEAN :
                 AskCall(raw, q, n, include_sources)
    \/ AskStep

\* a call that has begun runs on: the interpreter executes ask, the service
\* answers when it is going to, and the client's timer runs
SpecAsk == Init /\ [][NextAsk]_vars /\ WF_vars(AskStep)

(***************************************************************************)
(* SpecReads: add_pdf_to_vector_db fills the store while no thread reads;  *)
(* then the threads of Readers each make one read, their steps in any      *)
(* order.                                                                  *)
(***************************************************************************)
NoneReading == \A r \in Readers : readers[r].pc = "idle"

\* a thread calls query_vector_db or get_collection_stats
ReadBegin(r, read) ==
    /\ readers[r].pc = "idle"
    /\ readers' = [readers EXCEPT ![r] = [IdleReader EXCEPT !.pc = "lookup", !.read = read]]
    /\ before' = collections
    /\ UNCHANGED <<collections, writes, op, arg_name, outcome, ret, args, invoked,
                   chunkVars, nameVars, askVars>>

\* lines 228-235 and 255, 262-267: the lookup; a collection that is not
\* there ends the read with the not-found result
ReadLookup(r) ==
    LET read == readers[r].read
        found == read.name \in DOMAIN collections
    IN  /\ readers[r].pc = "lookup"
        /\ collections' = LookupStore(collections, read.name)
        /\ readers' = [readers EXCEPT ![r] =
                         IF found THEN [@ EXCEPT !.pc = "read"]
                         ELSE [@ EXCEPT !.pc = "done", !.outcome = "ok",
                                        !.result = ReadResult(collections, read)]]
        /\ UNCHANGED <<writes, callVars, chunkVars, nameVars, askVars>>

\* lines 237-250 and 256-261: the read of the collection that was found
ReadData(r) ==
    LET read == readers[r].read
    IN  /\ readers[r].pc = "read"
        /\ readers' = [readers EXCEPT ![r] =
                         [@ EXCEPT !.pc = "done",
                                   !.outcome = ReadOutcome(collections, read),
                                   !.result = ReadResult(collections, read)]]
        /\ UNCHANGED <<collections, writes, callVars, chunkVars, nameVars, askVars>>

NextReads ==
    \/ \E t \in StoreTexts :
          /\ NoneReading
          /\ add_pdf_to_vector_db(<<"a", "_", "a">>, t, <<"f">>, NoMetadata)
    \/ \E r \in Readers :
          \/ \E read \in Reads : ReadBegin(r, read)
          \/ ReadLookup(r)
          \/ ReadData(r)

SpecReads == Init /\ [][NextReads]_vars

(***************************************************************************)
(* Vocabulary of the chunker's properties.                                 *)
(***************************************************************************)
IsPrefix(p, s) == Len(p) <= Len(s) /\ SubSeq(s, 1, Len(p)) = p

\* the last min(n, Len(ws)) elements of ws; none when n = 0
Trailing(ws, n) == SubSeq(ws, Len(ws) - Min(n, Len(ws)) + 1, Len(ws))

\* sentence s stands whole in chunk c: delimited by the ends of c or by blanks
ContainsSentence(s, c) ==
    \E p \in 1..(Len(c) - Len(s) + 1) :
        /\ SubSeq(c, p, p + Len(s) - 1) = s
        /\ (p = 1 \/ c[p - 1] = " ")
        /\ (p + Len(s) - 1 = Len(c) \/ c[p + Len(s)] = " ")

\* chunk c ends with the whole sentence s
EndsWithSentence(s, c) ==
    /\ s # <<>>
    /\ Len(s) <= Len(c)
    /\ SubSeq(c, Len(c) - Len(s) + 1, Len(c)) = s
    /\ (Len(s) = Len(c) \/ c[Len(c) - Len(s)] = " ")

\* the sentences of the cleaned text; the empty text has none
TextSentences == IF CleanText(text) = <<>> THEN <<>> ELSE SplitSentences(CleanText(text))

\* the sentences ss can be found in order in the chunks cs, starting at chunk from
RECURSIVE InOrder(_, _, _)
InOrder(ss, cs, from) ==
    IF ss = <<>> THEN TRUE
    ELSE LET ks == {k \in from..Len(cs) : ContainsSentence(Head(ss), cs[k])}
         IN  /\ ks # {}
             /\ InOrder(Tail(ss), cs, CHOOSE k \in ks : \A m \in ks : k <= m)

AllSpace(s) == \A i \in 1..Len(s) : IsSpace(s[i])

\* the for loop is about to place a sentence
AtSentence == pc = "loop" /\ idx < Len(sentences)

(***************************************************************************)
(* C5.  Whenever the running chunk is non-empty and the running chunk      *)
(* joined with the next sentence by one blank would be longer than         *)
(* chunk_size, the step closes the running chunk: it is appended to the    *)
(* result and the sentence is not appended to it.                          *)
(***************************************************************************)
C5_JoinedLengthCutsOver ==
    [][ ( /\ AtSentence
          /\ current_chunk # <<>>
          /\ Len(current_chunk) + 1 + Len(sentences[idx + 1]) > chunk_size )
        => chunks' = Append(chunks, Strip(current_chunk))
      ]_vars

(***************************************************************************)
(* C6.  For every overlap >= 0 the chunk opened by a cutover is the        *)
(* trailing `overlap` words of the closed chunk (all of them if it has     *)
(* fewer) followed by the triggering sentence; with overlap = 0 it is the  *)
(* sentence alone.  (Stated for chunk_size >= 1.)                          *)
(***************************************************************************)
C6_OpenedChunkIsTrailingWords ==
    [][ ( /\ AtSentence
          /\ overlap >= 0
          /\ chunk_size >= 1
          /\ Len(chunks') = Len(chunks) + 1 )
        => current_chunk' =
             JoinWords(Trailing(Words(current_chunk), overlap)
                       \o <<sentences[idx + 1]>>)
      ]_vars

C8_SentencesInOrder ==
    pc = "done" => InOrder(TextSentences, chunks, 1)

\* three sentences, not all alike, spread over several chunks
C8_Witness ==
    /\ pc = "done"
    /\ chunk_size >= 1
    /\ Len(TextSentences) >= 3
    /\ Len(chunks) >= 2
    /\ \E i, j \in 1..Len(TextSentences) : TextSentences[i] # TextSentences[j]

(***************************************************************************)
(* C9.  For chunk_size >= 1 and overlap >= 0 no returned chunk is empty    *)
(* or whitespace-only, and every returned chunk ends with a whole          *)
(* sentence of the cleaned text.                                           *)
(***************************************************************************)
C9_ChunksNonEmptyAtSentenceEnd ==
    (pc = "done" /\ chunk_size >= 1 /\ overlap >= 0) =>
        \A i \in 1..Len(chunks) :
            /\ ~AllSpace(chunks[i])
            /\ \E j \in 1..Len(TextSentences) :
                   EndsWithSentence(TextSentences[j], chunks[i])

\* a first sentence longer than chunk_size, and a later cutover
C9_Witness ==
    /\ pc = "done"
    /\ chunk_size >= 1
    /\ overlap >= 0
    /\ Len(chunks) >= 2
    /\ Len(sentences[1]) > chunk_size

(***************************************************************************)
(* C10.  chunk_text returns the empty list for an empty or whitespace-only *)
(* text, whatever chunk_size >= 0 and overlap are, and at least one chunk  *)
(* for a text with a non-whitespace character.                             *)
(***************************************************************************)
C10_EmptyIffBlankText ==
    pc = "done" => (chunks = <<>> <=> AllSpace(text))

\* a whitespace-only text of two characters has been chunked
C10_Witness ==
    /\ pc = "done"
    /\ Len(text) >= 2
    /\ AllSpace(text)
    /\ chunks = <<>>

(***************************************************************************)
(* C1.  Index, stats and query called with the same raw collection name    *)
(* address the same collection: once add_pdf_to_vector_db(c, text, s) has  *)
(* returned for a text with at least one chunk, get_collection_stats(c)    *)
(* reports exists = true with count >= 1 and query_vector_db(c, q, n)      *)
(* does not return the not-found signal.                                   *)
(***************************************************************************)
C1_SameNameSameCollection ==
    [][ ( /\ op = "add_pdf_to_vector_db"
          /\ outcome = "ok"
          /\ ret.count >= 1
          /\ arg_name' = arg_name )
        => ( /\ op' = "get_collection_stats" => (ret'.exists /\ ret'.count >= 1)
             /\ op' = "query_vector_db" => ~ret'.error )
      ]_vars

(***************************************************************************)
(* Vocabulary of the naming properties: the invariant of a normalized      *)
(* collection name.                                                        *)
(***************************************************************************)
NameInvariant(s) ==
    /\ Len(s) \in 3..63
    /\ \A i \in 1..Len(s) : s[i] \in {"a", "c", "o", "l", "0", "_", "-"}
    /\ s[1] \in {"a", "c", "o", "l", "0"}
    /\ s[Len(s)] \in {"a", "c", "o", "l", "0"}

(***************************************************************************)
(* C2.  For every non-empty raw name, sanitize_collection_name returns a   *)
(* string of 3 to 63 characters, each a letter, digit, underscore or       *)
(* hyphen, the first and the last alphanumeric.                            *)
(***************************************************************************)
C2_SanitizedNameIsValid ==
    (name_pc = "sanitized" /\ raw_name # <<>>) => NameInvariant(sanitized)

\* "a!!" has been normalized, to "a__0"
C2_Witness ==
    /\ name_pc = "sanitized"
    /\ raw_name = <<"a", "!", "!">>
    /\ sanitized = <<"a", "_", "_", "0">>

(***************************************************************************)
(* C3.  A malformed collection name is never an error: for every raw name, *)
(* the empty one included, create_collection returns a collection, under   *)
(* a name that satisfies the invariant of normalized names.                *)
(***************************************************************************)
C3_MalformedNameNeverAnError ==
    op = "create_collection" => (outcome = "ok" /\ NameInvariant(ret.name))

(***************************************************************************)
(* C4.  For every raw name x, normalizing the normalized name gives the    *)
(* normalized name again:                                                  *)
(* sanitize_collection_name(sanitize_collection_name(x)) =                 *)
(* sanitize_collection_name(x).                                            *)
(***************************************************************************)
C4_SanitizeIdempotent ==
    name_pc = "resanitized" => resanitized = sanitized

(***************************************************************************)
(* C11 as stated.  A sentence longer than chunk_size is emitted as its own *)
(* chunk: the step that places it leaves it alone in the running chunk,    *)
(* and the next step emits exactly that sentence as a chunk.               *)
(***************************************************************************)
C11_OversizedSentenceAlone ==
    [][ (pc = "loop" /\ chunk_size >= 1) =>
          /\ (idx < Len(sentences) /\ Len(sentences[idx + 1]) > chunk_size)
                => current_chunk' = sentences[idx + 1]
          /\ (idx >= 1 /\ Len(sentences[idx]) > chunk_size)
                => chunks' = Append(chunks, sentences[idx])
      ]_vars

(***************************************************************************)
(* C11.  For chunk_size >= 1 and overlap >= 1 a sentence longer than       *)
(* chunk_size is never split and nothing follows it in its chunk: the step *)
(* that places it makes the running chunk the sentence alone when it is    *)
(* the first sentence, and otherwise the trailing min(overlap, words)      *)
(* words of the chunk just closed followed by the sentence; the next step  *)
(* emits that running chunk, which ends with the whole sentence.           *)
(***************************************************************************)
C11_OversizedSentenceEndsItsChunk ==
    [][ (pc = "loop" /\ chunk_size >= 1 /\ overlap >= 1) =>
          /\ (idx < Len(sentences) /\ Len(sentences[idx + 1]) > chunk_size)
                => current_chunk' =
                     IF current_chunk = <<>> THEN sentences[idx + 1]
                     ELSE JoinWords(Trailing(Words(current_chunk), overlap)
                                    \o <<sentences[idx + 1]>>)
          /\ (idx >= 1 /\ Len(sentences[idx]) > chunk_size)
                => /\ chunks' = Append(chunks, current_chunk)
                   /\ EndsWithSentence(sentences[idx], current_chunk)
      ]_vars

\* an oversized sentence between two others has been chunked, behind an
\* overlap seed
C11_Witness ==
    /\ pc = "done"
    /\ chunk_size >= 1
    /\ overlap >= 1
    /\ Len(sentences) >= 3
    /\ Len(sentences[2]) > chunk_size
    /\ Len(chunks) >= 3
    /\ EndsWithSentence(sentences[2], chunks[2])
    /\ chunks[2] # sentences[2]

(***************************************************************************)
(* C12.  get_collection_stats(name) never raises.  When the collection is  *)
(* missing, the name is one the store refuses, or the store raises an      *)
(* error of its own, it returns {name as passed, count 0, exists false};   *)
(* otherwise it returns exists = true with the collection's chunk count.   *)
(***************************************************************************)
C12_StatsNeverRaises ==
    op = "get_collection_stats" =>
        /\ outcome = "ok"
        /\ ret = IF arg_name \in DOMAIN collections /\ ~args.store_error
                 THEN [NoResult EXCEPT !.name = arg_name,
                                       !.count = Len(collections[arg_name]),
                                       !.exists = TRUE]
                 ELSE [NoResult EXCEPT !.name = arg_name]

\* the store raised on the lookup of a collection that holds chunks
C12_Witness ==
    /\ op = "get_collection_stats"
    /\ args.store_error
    /\ arg_name \in DOMAIN collections
    /\ Len(collections[arg_name]) >= 1
    /\ outcome = "ok"
    /\ ~ret.exists
    /\ ret.count = 0

(***************************************************************************)
(* C13.  query_vector_db on a collection name that does not exist returns  *)
(* without raising and without computing a query embedding; its result     *)
(* carries the error descriptor and its documents, distances and metadatas *)
(* are empty.                                                              *)
(***************************************************************************)
C13_QueryMissingIsNotFound ==
    (op = "query_vector_db" /\ arg_name \notin DOMAIN collections) =>
        /\ outcome = "ok"
        /\ ret.error
        /\ ret.documents = <<>>
        /\ ret.distances = <<>>
        /\ ret.metadatas = <<>>
        /\ "encode" \notin invoked

\* a missing collection has been queried while another one holds chunks
C13_Witness ==
    /\ op = "query_vector_db"
    /\ arg_name \notin DOMAIN collections
    /\ \E n \in DOMAIN collections : Len(collections[n]) >= 1
    /\ outcome = "ok"
    /\ ret.error
    /\ invoked = {}

(***************************************************************************)
(* C14.  ask against a collection that does not exist, or against one for  *)
(* which the query returns zero hits (an existing collection without       *)
(* chunks, n_results >= 1), returns the fixed fallback answer with an      *)
(* empty sources list, does not raise and does not invoke the generation,  *)
(* whatever n_results and include_sources are.                             *)
(***************************************************************************)
C14_NoHitsIsFallback ==
    ( /\ op = "ask"
      /\ \/ arg_name \notin DOMAIN collections
         \/ (collections[arg_name] = <<>> /\ args.n_results >= 1) )
    => /\ outcome = "ok"
       /\ ret.answer = FallbackAnswer
       /\ ret.has_sources
       /\ ret.sources = <<>>
       /\ "generate" \notin invoked

\* ask without sources on an existing collection that holds no chunk,
\* while the generation would have raised
C14_Witness ==
    /\ op = "ask"
    /\ arg_name \in DOMAIN collections
    /\ collections[arg_name] = <<>>
    /\ args.n_results >= 1
    /\ ~args.include_sources
    /\ args.generation.raises
    /\ outcome = "ok"
    /\ ret.answer = FallbackAnswer

(***************************************************************************)
(* C15.  When retrieval yields at least one hit and the generation raises, *)
(* ask does not raise: it returns its usual result, whose answer is the    *)
(* string "Error generating answer: " followed by the exception's message, *)
(* with the sources when they were asked for.                              *)
(***************************************************************************)
C15_GenerationErrorIsAnAnswer ==
    ( /\ op = "ask"
      /\ arg_name \in DOMAIN collections
      /\ collections[arg_name] # <<>>
      /\ args.n_results >= 1
      /\ args.generation.raises )
    => /\ outcome = "ok"
       /\ "generate" \in invoked
       /\ ret.answer = <<ErrorPrefix, args.generation.content>>
       /\ ret.has_sources = args.include_sources
       /\ args.include_sources => Len(ret.sources) >= 1

\* the generation raised after two chunks were retrieved, sources asked for
C15_Witness ==
    /\ op = "ask"
    /\ arg_name \in DOMAIN collections
    /\ Len(collections[arg_name]) >= 2
    /\ args.n_results = 2
    /\ args.include_sources
    /\ args.generation.raises
    /\ outcome = "ok"
    /\ ret.answer[1] = ErrorPrefix
    /\ Len(ret.sources) = 2

(***************************************************************************)
(* Vocabulary of the store properties.                                     *)
(***************************************************************************)
\* the collection a write call addresses
Target == sanitize_collection_name(arg_name)

\* chunk_text(pdf_text) for the text of the last add_pdf_to_vector_db
AddedChunks == StoreChunks[args.pdf_text]

AddReturned == op = "add_pdf_to_vector_db" /\ outcome = "ok"

(***************************************************************************)
(* C16.  When add_pdf_to_vector_db returns, it returns the number of       *)
(* chunks chunk_text produces for the text, and if the collection was      *)
(* absent or empty before the call it holds exactly that many chunks       *)
(* after it.                                                               *)
(***************************************************************************)
C16_AddReturnsChunkCount ==
    AddReturned =>
        /\ ret.count = Len(AddedChunks)
        /\ (Target \notin DOMAIN before \/ before[Target] = <<>>)
              => Len(collections[Target]) = ret.count

\* a two-chunk text has been added to a collection that existed empty
C16_Witness ==
    /\ AddReturned
    /\ Target \in DOMAIN before
    /\ before[Target] = <<>>
    /\ ret.count = 2
    /\ Len(collections[Target]) = 2

(***************************************************************************)
(* C17.  add_pdf_to_vector_db into an existing collection does not delete  *)
(* or recreate it: the collection still exists after the call, and every   *)
(* chunk it held under another source identifier is still there with the   *)
(* same id, text and metadata.                                             *)
(***************************************************************************)
C17_AddKeepsOtherSources ==
    (op = "add_pdf_to_vector_db" /\ Target \in DOMAIN before) =>
        /\ Target \in DOMAIN collections
        /\ \A j \in 1..Len(before[Target]) :
              before[Target][j].id[1] # args.pdf_filename
                 => \E k \in 1..Len(collections[Target]) :
                       collections[Target][k] = before[Target][j]

\* chunks have been added to a collection that held chunks of another source
C17_Witness ==
    /\ AddReturned
    /\ Target \in DOMAIN before
    /\ \E j \in 1..Len(before[Target]) :
          before[Target][j].id[1] # args.pdf_filename
    /\ Len(collections[Target]) > Len(before[Target])

(***************************************************************************)
(* C18.  When create_collection(name, overwrite) returns, the collection   *)
(* under the normalized name exists; with overwrite = True it holds no     *)
(* chunk, whether or not it existed before, and with overwrite = False an  *)
(* existing collection keeps all its chunks.  The failing delete of a      *)
(* collection that did not exist is not an error: the call returns for     *)
(* every name the store accepts.                                           *)
(***************************************************************************)
C18_OverwriteDeletesThenRecreates ==
    op = "create_collection" =>
        /\ outcome = "ok" =>
              /\ Target \in DOMAIN collections
              /\ args.overwrite => collections[Target] = <<>>
              /\ (~args.overwrite /\ Target \in DOMAIN before)
                    => collections[Target] = before[Target]
        /\ (args.overwrite /\ Target \notin DOMAIN before /\ StoreAcceptsName(Target))
              => outcome = "ok"

\* a collection that held chunks has been created again with overwrite
C18_Witness ==
    /\ op = "create_collection"
    /\ outcome = "ok"
    /\ args.overwrite
    /\ Target \in DOMAIN before
    /\ Len(before[Target]) >= 1
    /\ collections[Target] = <<>>

(***************************************************************************)
(* C19.  For an existing collection of c chunks and n_results >= 1,        *)
(* query_vector_db returns without an error min(n_results, c) hits: its    *)
(* documents, distances and metadatas have that length, and the distances  *)
(* are in ascending order.  n_results > c returns all c hits.              *)
(***************************************************************************)
C19_QueryReturnsRankedHits ==
    ( /\ op = "query_vector_db"
      /\ arg_name \in DOMAIN collections
      /\ args.n_results >= 1 )
    => /\ outcome = "ok"
       /\ ~ret.error
       /\ Len(ret.documents) = Min(args.n_results, Len(collections[arg_name]))
       /\ Len(ret.distances) = Len(ret.documents)
       /\ Len(ret.metadatas) = Len(ret.documents)
       /\ \A i, j \in 1..Len(ret.distances) :
             i < j => ret.distances[i] <= ret.distances[j]
       /\ \A i \in 1..Len(ret.documents) :
             \E k \in 1..Len(collections[arg_name]) :
                /\ collections[arg_name][k].document = ret.documents[i]
                /\ collections[arg_name][k].metadata = ret.metadatas[i]

\* two results were asked of a collection of one chunk
C19_Witness ==
    /\ op = "query_vector_db"
    /\ arg_name \in DOMAIN collections
    /\ Len(collections[arg_name]) = 1
    /\ args.n_results = 2
    /\ outcome = "ok"
    /\ ~ret.error
    /\ Len(ret.documents) = 1

(***************************************************************************)
(* C20.  Round trip.  After add_pdf_to_vector_db has returned n >= 1 for   *)
(* a collection name that is in normalized form and named no collection    *)
(* before, a query of that collection with n_results = n returns n         *)
(* documents, and the text of every chunk of the indexed text is among     *)
(* them; for a single-sentence text and n_results = 1 the one document     *)
(* returned is the sentence.                                               *)
(***************************************************************************)
C20_RoundTrip ==
    [][ ( /\ AddReturned
          /\ sanitize_collection_name(arg_name) = arg_name
          /\ Target \notin DOMAIN before
          /\ op' = "query_vector_db"
          /\ arg_name' = arg_name
          /\ args'.n_results = ret.count )
        => /\ outcome' = "ok"
           /\ ~ret'.error
           /\ Len(ret'.documents) = ret.count
           /\ \A k \in 1..Len(AddedChunks) :
                 \E i \in 1..Len(ret'.documents) :
                    ret'.documents[i] = AddedChunks[k]
      ]_vars

\* a collection made by one add of a two-chunk text, under a normalized
\* name, has been queried for two results
C20_Witness ==
    /\ op = "query_vector_db"
    /\ sanitize_collection_name(arg_name) = arg_name
    /\ writes = 1
    /\ DOMAIN collections = {arg_name}
    /\ Len(collections[arg_name]) = 2
    /\ args.n_results = 2
    /\ outcome = "ok"
    /\ Len(ret.documents) = 2
    /\ ret.documents[1] # ret.documents[2]

(***************************************************************************)
(* C21.  Every chunk id of a collection has the form                       *)
(* {source identifier}_chunk_{sequence index}, and no two chunks of one    *)
(* collection have the same id, after any sequence of calls.  Indexing a   *)
(* source identifier and text whose chunks the collection already holds    *)
(* under their ids (the same source and text indexed a second time) does   *)
(* not append: the collection has as many chunks after the call as         *)
(* before it.                                                              *)
(***************************************************************************)
C21_IdsUniqueReindexKeepsCount ==
    /\ \A n \in DOMAIN collections :
          /\ \A j \in 1..Len(collections[n]) :
                /\ Len(collections[n][j].id) = 3
                /\ collections[n][j].id[1] \in Filenames
                /\ collections[n][j].id[2] = "_chunk_"
                /\ collections[n][j].id[3] \in Nat
          /\ \A j, k \in 1..Len(collections[n]) :
                collections[n][j].id = collections[n][k].id => j = k
    /\ ( /\ AddReturned
         /\ Target \in DOMAIN before
         /\ \A i \in 1..Len(AddedChunks) :
               \E j \in 1..Len(before[Target]) :
                  /\ before[Target][j].id = ChunkId(args.pdf_filename, i - 1)
                  /\ before[Target][j].document = AddedChunks[i] )
       => Len(collections[Target]) = Len(before[Target])

\* the two-chunk text has been indexed again under the source identifier
\* whose two chunks the collection held
C21_Witness ==
    /\ AddReturned
    /\ Len(AddedChunks) = 2
    /\ Target \in DOMAIN before
    /\ Len(before[Target]) = 2
    /\ \A i \in 1..2 :
          /\ before[Target][i].id = ChunkId(args.pdf_filename, i - 1)
          /\ before[Target][i].document = AddedChunks[i]
    /\ Len(collections[Target]) = 2

(***************************************************************************)
(* C22.  When include_sources is true and the retrieval yields h >= 1      *)
(* hits, ask returns exactly min(3, h) sources in retrieval rank order:    *)
(* the i-th source carries the preview of the i-th hit's text (the text,   *)
(* or its first 200 characters followed by "..." when it is longer) and    *)
(* the source identifier and chunk index of that hit's metadata.  No ask   *)
(* returns more than 3 sources.                                            *)
(***************************************************************************)
C22_SourcesAreTopThreeHits ==
    (op = "ask" /\ outcome = "ok") =>
        LET hits == QueryResult(collections, arg_name, args.query, args.n_results)
            h == Len(hits.documents)
        IN  /\ Len(ret.sources) <= 3
            /\ (args.include_sources /\ ~hits.error /\ h >= 1) =>
                  /\ Len(ret.sources) = Min(3, h)
                  /\ \A i \in 1..Len(ret.sources) :
                        LET d == hits.documents[i]
                        IN  /\ ret.sources[i].text_preview =
                                  IF Len(d) > 200
                                  THEN SubSeq(d, 1, 200) \o <<".", ".", ".">>
                                  ELSE d
                            /\ ret.sources[i].source_file = hits.metadatas[i].source
                            /\ ret.sources[i].chunk_index = hits.metadatas[i].chunk_index

\* ask with sources retrieved four hits, of chunks longer and shorter than a
\* preview, and returned three sources
C22_Witness ==
    /\ op = "ask"
    /\ outcome = "ok"
    /\ args.include_sources
    /\ arg_name \in DOMAIN collections
    /\ Len(collections[arg_name]) = 4
    /\ args.n_results = DefaultAskResults
    /\ Len(ret.sources) = 3
    /\ \E i \in 1..3 : Len(ret.sources[i].text_preview) = PreviewLen + 3

(***************************************************************************)
(* C23.  add_pdf_to_vector_db with an empty or whitespace-only text fails  *)
(* and leaves the store as it found it: the same collections exist after   *)
(* the call as before it, each with the same contents.                     *)
(***************************************************************************)
C23_BlankTextAddLeavesStore ==
    (op = "add_pdf_to_vector_db" /\ AllSpace(args.pdf_text)) =>
        /\ outcome = "raised"
        /\ collections = before

(***************************************************************************)
(* Vocabulary of the properties of a call of ask in progress.              *)
(***************************************************************************)
AskRunning == op = "ask" /\ outcome = "running"

AskReturned == op = "ask" /\ outcome = "ok"

C25_AskIsLinear ==
    /\ IsPrefix(calls, <<"query", "generate">>)
    /\ AskReturned =>
          calls = IF Len(retrieved.documents) >= 1
                  THEN <<"query", "generate">>
                  ELSE <<"query">>
    /\ (op = "ask" /\ outcome = "raised") => calls = <<"query">>
    /\ (ask_pc = "answered" /\ response.raises) => calls = <<"query", "generate">>

\* ask has returned after the one generation it invoked failed
C25_Witness ==
    /\ AskReturned
    /\ pending = "responds"
    /\ response.raises
    /\ Len(retrieved.documents) = 2
    /\ calls = <<"query", "generate">>

(***************************************************************************)
(* C26.  A chunk that a collection holds is immutable: whatever call comes *)
(* next (add_pdf_to_vector_db, query_vector_db, get_collection_stats, ask, *)
(* create_collection, delete_collection), the chunk is in its collection   *)
(* after the call with the same id, text and metadata, unless the call     *)
(* deleted that collection or was create_collection with overwrite = True  *)
(* for it.                                                                 *)
(***************************************************************************)
C26_ChunksAreImmutable ==
    \A n \in DOMAIN before :
        \A j \in 1..Len(before[n]) :
            \/ /\ n \in DOMAIN collections
               /\ \E k \in 1..Len(collections[n]) : collections[n][k] = before[n][j]
            \/ op = "create_collection" /\ args.overwrite /\ Target = n
            \/ op = "delete_collection" /\ arg_name = n

\* the source identifier of a chunk has been indexed again with another
\* text and with other metadata, and the chunk is still as it was
C26_Witness ==
    /\ AddReturned
    /\ Target \in DOMAIN before
    /\ \E j \in 1..Len(before[Target]) :
          /\ before[Target][j].id = ChunkId(args.pdf_filename, 0)
          /\ before[Target][j].document # AddedChunks[1]
          /\ before[Target][j].metadata # ChunkMeta(args.pdf_filename, 0, AddedChunks[1], args.metadata)
          /\ \E k \in 1..Len(collections[Target]) :
                collections[Target][k] = before[Target][j]

(***************************************************************************)
(* C27.  For every text, chunk_size >= 1 and overlap >= 0, every chunk     *)
(* chunk_text returns has at most chunk_size characters, except a chunk    *)
(* that is one single sentence which by itself is longer than chunk_size.  *)
(***************************************************************************)
C27_ChunkLengthBounded ==
    (pc = "done" /\ chunk_size >= 1) =>
        \A k \in 1..Len(chunks) :
            \/ Len(chunks[k]) <= chunk_size
            \/ \E i \in 1..Len(TextSentences) : chunks[k] = TextSentences[i]

(***************************************************************************)
(* C28.  Each chunk add_pdf_to_vector_db writes carries metadata with      *)
(* source = the source identifier, chunk_index = its zero-based position   *)
(* in the chunk sequence (0..n-1, no gaps) and chunk_size = the number of  *)
(* characters of its text, merged with the caller's metadata: every key    *)
(* of the caller is there with the caller's value, also where the system   *)
(* generates a value for the same key.                                     *)
(***************************************************************************)
C28_MetadataCallerWins ==
    AddReturned =>
        \A i \in 1..Len(AddedChunks) :
            LET id == ChunkId(args.pdf_filename, i - 1)
                held == /\ Target \in DOMAIN before
                        /\ \E j \in 1..Len(before[Target]) : before[Target][j].id = id
                caller == args.metadata
            IN  ~held =>
                  \E k \in 1..Len(collections[Target]) :
                      LET r == collections[Target][k]
                      IN  /\ r.id = id
                          /\ r.document = AddedChunks[i]
                          /\ DOMAIN r.metadata =
                                {"source", "chunk_index", "chunk_size"} \cup DOMAIN caller
                          /\ \A key \in DOMAIN caller : r.metadata[key] = caller[key]
                          /\ "source" \notin DOMAIN caller
                                => r.metadata.source = args.pdf_filename
                          /\ "chunk_index" \notin DOMAIN caller
                                => r.metadata.chunk_index = i - 1
                          /\ "chunk_size" \notin DOMAIN caller
                                => r.metadata.chunk_size = Len(r.document)

\* two chunks have been written with caller metadata that has a key of the
\* system's and a key of its own
C28_Witness ==
    /\ AddReturned
    /\ Target \notin DOMAIN before
    /\ Len(collections[Target]) = 2
    /\ "source" \in DOMAIN args.metadata
    /\ collections[Target][2].metadata.source = args.metadata.source
    /\ collections[Target][2].metadata.source # args.pdf_filename
    /\ collections[Target][2].metadata.floor_id = args.metadata.floor_id
    /\ collections[Target][2].metadata.chunk_index = 1
    /\ collections[Target][2].metadata.chunk_size = Len(AddedChunks[2])

(***************************************************************************)
(* C29.  Reads are safe to run concurrently.  While threads read, in any   *)
(* interleaving of their steps, no read creates, modifies or deletes a     *)
(* collection (a read of a missing collection does not create it): the     *)
(* store stays as the reads found it, and every read returns what it       *)
(* returns when the reads run one after another on that store.             *)
(***************************************************************************)
C29_ConcurrentReadsAreSequential ==
    ~NoneReading =>
        /\ collections = before
        /\ \A r \in Readers :
              readers[r].pc = "done" =>
                 LET read == readers[r].read
                 IN  IF read.kind = "get_collection_stats"
                     THEN /\ readers[r].outcome = "ok"
                          /\ readers[r].result = StatsResult(before, read.name)
                     ELSE IF QueryRaises(before, read.name, read.n_results)
                     THEN readers[r].outcome = "raised"
                     ELSE /\ readers[r].outcome = "ok"
                          /\ readers[r].result =
                                QueryResult(before, read.name, read.query, read.n_results)

\* one thread's query of a missing collection returned not-found and the
\* collection is still missing, while another thread stood between the
\* lookup and the count of its stats call on a collection of two chunks
C29_Witness ==
    \E r1, r2 \in Readers :
        /\ readers[r1].pc = "done"
        /\ readers[r1].read.kind = "query_vector_db"
        /\ readers[r1].result.error
        /\ readers[r1].read.name \notin DOMAIN collections
        /\ readers[r2].pc = "read"
        /\ readers[r2].read.kind = "get_collection_stats"
        /\ Len(collections[readers[r2].read.name]) = 2

\* collection n of store st holds every chunk id of the text t indexed
\* under the source identifier f
HoldsChunksOf(st, n, f, t) ==
    /\ n \in DOMAIN st
    /\ \A i \in 1..Len(StoreChunks[t]) :
          \E j \in 1..Len(st[n]) : st[n][j].id = ChunkId(f, i - 1)

(***************************************************************************)
(* C30.  Two raw collection names are stored in the same collection        *)
(* exactly when their normalized names are equal.  When a text has been    *)
(* indexed under one raw name and next a text is indexed under another     *)
(* raw name, then with equal normalized names (such as "a!a" and "a_a")    *)
(* one collection holds the chunks of both calls, and with different       *)
(* normalized names the second call writes into another collection and     *)
(* leaves the collection of the first as it was.  An indexing call         *)
(* changes no collection but the one of its normalized name.               *)
(***************************************************************************)
C30_SharedIffSameNormalizedName ==
    [][ ( /\ AddReturned
          /\ op' = "add_pdf_to_vector_db"
          /\ outcome' = "ok"
          /\ arg_name' # arg_name )
        => LET first == sanitize_collection_name(arg_name)
               second == sanitize_collection_name(arg_name')
           IN  /\ HoldsChunksOf(collections, first, args.pdf_filename, args.pdf_text)
               /\ HoldsChunksOf(collections', second, args'.pdf_filename, args'.pdf_text)
               /\ \A n \in DOMAIN collections :
                     n # second => /\ n \in DOMAIN collections'
                                   /\ collections'[n] = collections[n]
               /\ DOMAIN collections' = DOMAIN collections \cup {second}
               /\ first = second =>
                     HoldsChunksOf(collections', first, args.pdf_filename, args.pdf_text)
               /\ first # second =>
                     /\ collections'[first] = collections[first]
                     /\ second \notin DOMAIN collections =>
                           Len(collections'[second]) = Len(StoreChunks[args'.pdf_text])
      ]_vars

\* after two indexing calls, the second under the raw name "a!a", the one
\* collection "a_a" holds the chunks of two source identifiers
C30_Witness ==
    /\ AddReturned
    /\ writes = 2
    /\ arg_name # Target
    /\ DOMAIN collections = {Target}
    /\ Target \in DOMAIN before
    /\ \E j \in 1..Len(before[Target]) : before[Target][j].id[1] # args.pdf_filename
    /\ HoldsChunksOf(collections, Target, args.pdf_filename, args.pdf_text)
    /\ Len(collections[Target]) = Len(before[Target]) + Len(AddedChunks)

=============================================================================
